---- MODULE Spec2Model ----
(***************************************************************************)
(* Model of demo.py: a Flask application with one form route ("/"), one    *)
(* greeting route ("/user/<name>") and two error handlers, backed by a     *)
(* users table with a unique username column and a cookie session.         *)
(*                                                                         *)
(* Requests are numbered in arrival order.  Each request runs its handler  *)
(* in its own thread; the handler is split where it touches shared state:  *)
(* the query (line 137), the commit (lines 143-144) and the response,      *)
(* which carries the session cookie back to the browser.                   *)
(***************************************************************************)
EXTENDS Integers, FiniteSets, Sequences, TLC

(* ---- bounds ---- *)
MaxReq == 3
NumNames == 2
NumSessions == 2

(* ---- values ---- *)
None == "None"
NamePool == <<"Alice", "Bob", "Carol", "Dave">>
ValidNames == {NamePool[i] : i \in 1..NumNames}
Sessions == 1..NumSessions
Requests == 1..MaxReq

\* str.strip() on the form inputs of the model
Strip(s) == IF s = " " THEN "" ELSE s

\* an empty session dict
EmptySession == [k \in {} |-> None]

\* session.get(key, default)
SessionGet(sess, key, default) ==
    IF key \in DOMAIN sess THEN sess[key] ELSE default

\* session[key] = value
SessionSet(sess, key, value) ==
    [k \in (DOMAIN sess) \cup {key} |-> IF k = key THEN value ELSE sess[k]]

VARIABLES users, roles, cookie, reqs

vars == <<users, roles, cookie, reqs>>

IdleReq ==
    [pc |-> "idle", method |-> None, endpoint |-> None, sid |-> 0, name |-> None,
     sess |-> EmptySession, modified |-> FALSE, user |-> {},
     status |-> 0, body |-> <<>>]

Init ==
    /\ users = {}
    /\ roles = {}
    /\ cookie = [s \in Sessions |-> EmptySession]
    /\ reqs = [r \in Requests |-> IdleReq]

(* ---- the store ---- *)

\* User(username=...): id is assigned by the store, role_id stays unset
MaxId(table) ==
    IF table = {} THEN 0 ELSE CHOOSE i \in {u.id : u \in table} : \A u \in table : u.id <= i

\* variant: the username is not passed to the constructor
NewUser_NoName(table, username) ==
    [id |-> MaxId(table) + 1, username |-> None, role_id |-> None]

NewUser(table, username) ==
    [id |-> MaxId(table) + 1, username |-> username, role_id |-> None]

\* variant: the filter never matches
QueryFirst_Miss(table, username) == {}

\* User.query.filter_by(username=...).first()
QueryFirst(table, username) ==
    LET hits == {u \in table : u.username = username}
    IN  IF hits = {} THEN {}
        ELSE {CHOOSE u \in hits : \A v \in hits : u.id <= v.id}

\* variant: the username column is not declared unique
UniqueViolation_Off(table, row) == FALSE

\* the unique=True constraint on users.username: does the insert violate it
UniqueViolation(table, row) ==
    \E u \in table : u.username = row.username /\ row.username # None

(* ---- the form ---- *)

\* variant: the name field has no validator
DataRequired_Off(data) == TRUE

\* wtforms DataRequired on NameForm.name
DataRequired(data) == data # "" /\ Strip(data) # ""

\* form.validate_on_submit()
validate_on_submit(rq) == rq.method = "POST" /\ DataRequired(rq.name)

(* ---- the session cookie ---- *)

\* the response carries the session back when the handler changed it
SaveSession(ck, rq) == IF rq.modified THEN [ck EXCEPT ![rq.sid] = rq.sess] ELSE ck

(* ---- requests ---- *)

\* Sessions and names are interchangeable: the program only ever compares
\* them for equality.  Requests therefore take them in order of first
\* appearance: a new session is the lowest unused one, a new name the first
\* unused one of NamePool.
SessionsSeen == {reqs[q].sid : q \in Requests}
NamesSeen == {reqs[q].name : q \in Requests}

Browsers == {s \in Sessions : s = 1 \/ (s - 1) \in SessionsSeen}
NamesTyped == {NamePool[i] : i \in {j \in 1..NumNames : j = 1 \/ NamePool[j - 1] \in NamesSeen}}

\* the forms a browser can send to /: a GET carries no form data
Forms ==
    {[method |-> "GET", name |-> None]} \cup
    {[method |-> "POST", name |-> n] : n \in NamesTyped \cup {"", " "}}

\* request r is the next to arrive
Arrives(r) ==
    /\ reqs[r].pc = "idle"
    /\ \A q \in Requests : q < r => reqs[q].pc # "idle"

\* a request inside its view function; sess is the session as the browser sent it
Request(method, endpoint, s, n, sess) ==
    [IdleReq EXCEPT !.pc = "handler", !.method = method, !.endpoint = endpoint,
                    !.sid = s, !.name = n, !.sess = sess]

\* a response leaves the server: the request is done and the browser
\* receives the session cookie
Respond(r, rq, status, body) ==
    /\ reqs' = [reqs EXCEPT ![r] = [rq EXCEPT !.pc = "done", !.status = status,
                                              !.body = body]]
    /\ cookie' = SaveSession(cookie, rq)

\* index(), lines 135-136: a POST arrives and its form validates
IndexSubmit(r) ==
    /\ Arrives(r)
    /\ \E s \in Browsers, form \in Forms :
          /\ validate_on_submit(form)
          /\ reqs' = [reqs EXCEPT ![r] =
                        Request(form.method, "index", s, form.name, cookie[s])]
    /\ UNCHANGED <<users, roles, cookie>>

\* variant: the name is written to the session before the record is committed
IndexLookup_WritesName(r) ==
    /\ reqs[r].pc = "handler"
    /\ LET found == QueryFirst(users, reqs[r].name)
           named == SessionSet(reqs[r].sess, "name", reqs[r].name)
       IN  IF found = {}
           THEN reqs' = [reqs EXCEPT ![r].user = found, ![r].pc = "commit",
                                     ![r].sess = named, ![r].modified = TRUE]
           ELSE reqs' = [reqs EXCEPT ![r].user = found, ![r].pc = "respond",
                                     ![r].sess = SessionSet(named, "known", TRUE),
                                     ![r].modified = TRUE]
    /\ UNCHANGED <<users, roles, cookie>>

\* index(), lines 137-141 and 146-147: look the name up and, when a record
\* is found, mark the visitor as known
IndexLookup(r) ==
    /\ reqs[r].pc = "handler"
    /\ LET found == QueryFirst(users, reqs[r].name)
       IN  IF found = {}
           THEN reqs' = [reqs EXCEPT ![r].user = found, ![r].pc = "commit"]
           ELSE reqs' = [reqs EXCEPT ![r].user = found, ![r].pc = "respond",
                                     ![r].sess = SessionSet(reqs[r].sess, "known", TRUE),
                                     ![r].modified = TRUE]
    /\ UNCHANGED <<users, roles, cookie>>

\* variant: a duplicate username replaces the stored record
IndexCommit_Replace(r) ==
    /\ reqs[r].pc = "commit"
    /\ LET row == NewUser(users, reqs[r].name)
       IN  /\ users' = (users \ {u \in users : u.username = row.username}) \cup {row}
           /\ reqs' = [reqs EXCEPT ![r].user = {row}, ![r].pc = "respond",
                                   ![r].sess = SessionSet(reqs[r].sess, "known", FALSE),
                                   ![r].modified = TRUE]
    /\ UNCHANGED <<roles, cookie>>

\* index(), lines 142-145: add the new user and commit, then mark the visitor
\* as not known; the store rejects a duplicate username and the exception
\* leaves the view
IndexCommit(r) ==
    /\ reqs[r].pc = "commit"
    /\ LET row == NewUser(users, reqs[r].name)
       IN  IF UniqueViolation(users, row)
           THEN /\ reqs' = [reqs EXCEPT ![r].pc = "error"]
                /\ UNCHANGED users
           ELSE /\ users' = users \cup {row}
                /\ reqs' = [reqs EXCEPT ![r].user = {row}, ![r].pc = "respond",
                                        ![r].sess = SessionSet(reqs[r].sess, "known", FALSE),
                                        ![r].modified = TRUE]
    /\ UNCHANGED <<roles, cookie>>

\* variant: the submitted name is not written to the session
IndexRedirect_NoName(r) ==
    /\ reqs[r].pc = "respond"
    /\ Respond(r, [reqs[r] EXCEPT !.modified = TRUE], 302, <<"redirect", "/">>)
    /\ UNCHANGED <<users, roles>>

\* index(), lines 151-152: remember the name and redirect to index
IndexRedirect(r) ==
    /\ reqs[r].pc = "respond"
    /\ Respond(r, [reqs[r] EXCEPT !.sess = SessionSet(reqs[r].sess, "name", reqs[r].name),
                                  !.modified = TRUE],
               302, <<"redirect", "/">>)
    /\ UNCHANGED <<users, roles>>

\* index(), lines 135-136 and 154-157: a GET, or a POST that fails
\* validation, renders the page from the session; the view reads the
\* session once and touches nothing else, so the request is one step
IndexRender(r) ==
    /\ Arrives(r)
    /\ \E s \in Browsers, form \in Forms :
          /\ ~validate_on_submit(form)
          /\ Respond(r, Request(form.method, "index", s, form.name, cookie[s]), 200,
                     <<"index.html", SessionGet(cookie[s], "name", None),
                       SessionGet(cookie[s], "known", FALSE)>>)
    /\ UNCHANGED <<users, roles>>

\* variant: the greeting route registers the name it is given
user_Registers(r) ==
    /\ Arrives(r)
    /\ \E n \in NamesTyped :
          /\ Respond(r, Request("GET", "user", 0, n, EmptySession), 200, <<"user.html", n>>)
          /\ users' = users \cup {NewUser(users, n)}
    /\ UNCHANGED roles

\* user(name), lines 161-163: the view uses neither the session nor the store
user(r) ==
    /\ Arrives(r)
    /\ \E n \in NamesTyped :
          Respond(r, Request("GET", "user", 0, n, EmptySession), 200, <<"user.html", n>>)
    /\ UNCHANGED <<users, roles>>

\* page_not_found(e), lines 119-121: no route matches the URL
page_not_found(r) ==
    /\ Arrives(r)
    /\ Respond(r, Request("GET", "none", 0, None, EmptySession), 404, <<"404.html">>)
    /\ UNCHANGED <<users, roles>>

\* internal_server_error(e), lines 124-126: an exception left the view
internal_server_error(r) ==
    /\ reqs[r].pc = "error"
    /\ Respond(r, reqs[r], 500, <<"500.html">>)
    /\ UNCHANGED <<users, roles>>

\* a request arrives
Arrive(r) ==
    \/ IndexSubmit(r)
    \/ IndexRender(r)
    \/ user(r)
    \/ page_not_found(r)

\* a request in flight goes on
Continue(r) ==
    \/ IndexLookup(r)
    \/ IndexCommit(r)
    \/ IndexRedirect(r)

\* thread-per-request: any number of requests in flight
Next ==
    \/ \E r \in Requests : Arrive(r)
    \/ \E r \in Requests : Continue(r)
    \/ \E r \in Requests : internal_server_error(r)

Spec == Init /\ [][Next]_vars

\* one request at a time: a request arrives only when none is in flight
InFlight == {r \in Requests : reqs[r].pc \notin {"idle", "done"}}

NextSeq ==
    \/ \E r \in Requests : InFlight = {} /\ Arrive(r)
    \/ \E r \in Requests : Continue(r)

SeqSpec == Init /\ [][NextSeq]_vars

\* every thread that has work to do gets to run
FairSpec == Spec /\ \A r \in Requests : WF_vars(Continue(r) \/ internal_server_error(r))

(* ---- shorthands used by the properties ---- *)

Started(r) == reqs[r].pc # "idle"
Done(r) == reqs[r].pc = "done"

\* a POST to / whose name field is a usable name
ValidPost(r) == Started(r) /\ reqs[r].method = "POST" /\ reqs[r].endpoint = "index"
                /\ reqs[r].name \in ValidNames

\* a POST to / whose name field is empty or blank
BlankPost(r) == Started(r) /\ reqs[r].method = "POST" /\ reqs[r].endpoint = "index"
                /\ Strip(reqs[r].name) = ""

Records(n) == {u \in users : u.username = n}

\* request r is the one that takes a step
Steps(r) == reqs'[r] # reqs[r]

\* an earlier request (in arrival order) validly submitted the same name
SubmittedBefore(r) ==
    \E q \in Requests : q < r /\ ValidPost(q) /\ reqs[q].name = reqs[r].name

(* ---- C1 ---- *)
\* C1: with requests handled one after another, a valid POST of a name that
\* no earlier request submitted takes the create path and sets known to
\* False; a valid POST of a name submitted before, from any session, takes
\* the found path and sets known to True.  No valid POST fails.
C1_FirstCreatesLaterFinds ==
    \A r \in Requests : ValidPost(r) =>
        /\ reqs[r].pc # "error"
        /\ reqs[r].pc = "commit" => ~SubmittedBefore(r)
        /\ reqs[r].pc \in {"respond", "done"} =>
              /\ "known" \in DOMAIN reqs[r].sess
              /\ reqs[r].sess["known"] = SubmittedBefore(r)
              /\ reqs[r].user \subseteq Records(reqs[r].name)
              /\ reqs[r].user # {}

C1_Witness ==
    \E q, r \in Requests :
        /\ q < r /\ ValidPost(q) /\ ValidPost(r) /\ Done(q) /\ Done(r)
        /\ reqs[q].name = reqs[r].name /\ reqs[q].sid # reqs[r].sid
        /\ reqs[q].sess["known"] = FALSE /\ reqs[r].sess["known"] = TRUE

(* ---- C2 ---- *)
NamesRegistered ==
    {reqs[r].name : r \in {q \in Requests : ValidPost(q) /\ reqs[q].pc \in {"respond", "done"}}}

\* C2: with requests handled one after another, the users table holds
\* exactly one record for every name whose submission got past the commit,
\* however often the name was submitted, and no other record.
C2_Idempotent ==
    /\ {u.username : u \in users} = NamesRegistered
    /\ \A n \in NamesRegistered : Cardinality(Records(n)) = 1

C2_Witness ==
    \E q, r \in Requests :
        /\ q # r /\ ValidPost(q) /\ ValidPost(r) /\ Done(q) /\ Done(r)
        /\ reqs[q].name = reqs[r].name
        /\ Cardinality(users) = 1

(* ---- C3 ---- *)
\* C3: a request whose insert the store rejected is answered as a known
\* visitor (known = True and a redirect to /), and no request ends in a
\* server fault.
C3_RaceLoserIsKnown ==
    \A r \in Requests :
        /\ reqs[r].pc # "error"
        /\ reqs[r].status # 500
        /\ (ValidPost(r) /\ Done(r)) =>
              /\ reqs[r].status = 302
              /\ "known" \in DOMAIN reqs[r].sess

(* ---- C4 ---- *)
\* C4: no two users records share a username.
C4_UniqueUsername ==
    \A u, v \in users : u.username = v.username => u = v

\* the store has rejected a second insert of a name
C4_Witness ==
    \E r \in Requests :
        /\ reqs[r].pc = "error"
        /\ Cardinality(Records(reqs[r].name)) = 1

(* ---- C5 ---- *)
\* C5: a POST with an empty (or blank) name is answered by rendering the
\* page: no lookup, no insert, no redirect, and the session is left alone.
C5_BlankPostRerenders ==
    [][\A r \in Requests : (Steps(r) /\ BlankPost(r)') =>
          /\ users' = users
          /\ cookie' = cookie
          /\ reqs'[r].sess = cookie[reqs'[r].sid]
          /\ reqs'[r].user = {}
          /\ reqs'[r].pc = "done"
          /\ reqs'[r].status = 200
          /\ reqs'[r].body[1] = "index.html"]_vars

C5_Witness ==
    \E r \in Requests :
        /\ BlankPost(r) /\ Done(r) /\ reqs[r].name = ""
        /\ "name" \in DOMAIN cookie[reqs[r].sid]
        /\ users # {}

(* ---- C6 ---- *)
IsIndexGet(r) == Started(r) /\ reqs[r].method = "GET" /\ reqs[r].endpoint = "index"

PostsBefore(r) ==
    {p \in Requests : p < r /\ ValidPost(p) /\ reqs[p].sid = reqs[r].sid}

LastPostBefore(r) == CHOOSE p \in PostsBefore(r) : \A q \in PostsBefore(r) : q <= p

\* C6: with requests handled one after another, GET / renders the name of
\* the session's latest valid POST, and known is true exactly when that name
\* had been submitted before that POST; without a POST it renders no name
\* and known = false.
C6_RoundTrip ==
    \A r \in Requests : (IsIndexGet(r) /\ Done(r)) =>
        IF PostsBefore(r) = {}
        THEN reqs[r].body = <<"index.html", None, FALSE>>
        ELSE LET p == LastPostBefore(r)
             IN  reqs[r].body = <<"index.html", reqs[p].name, SubmittedBefore(p)>>

C6_Witness ==
    \E r \in Requests :
        /\ IsIndexGet(r) /\ Done(r)
        /\ reqs[r].body[2] \in ValidNames
        /\ reqs[r].body[3] = TRUE

(* ---- C7 ---- *)
\* C7: no step of a GET request changes the users table, the roles table
\* or any session cookie.
C7_GetHasNoEffect ==
    [][\A r \in Requests : (Steps(r) /\ reqs'[r].method = "GET") =>
          UNCHANGED <<users, roles, cookie>>]_vars

C7_Witness ==
    \E q, r \in Requests :
        /\ Done(q) /\ reqs[q].endpoint = "user" /\ Records(reqs[q].name) = {}
        /\ IsIndexGet(r) /\ Done(r)
        /\ users # {}

(* ---- C8 ---- *)
\* C8: every answered request got a rendered page or a redirect, and a POST
\* with valid form data is answered by a redirect to /, never by a page.
C8_ValidPostRedirects ==
    \A r \in Requests : Done(r) =>
        /\ reqs[r].status \in {200, 302, 404, 500}
        /\ ValidPost(r) => reqs[r].status = 302 /\ reqs[r].body = <<"redirect", "/">>

\* every request that arrived is answered
EveryRequestAnswered ==
    \A r \in Requests : Started(r) ~> Done(r)

(* ---- C9 ---- *)
\* C9: every step keeps all users records as they are, adds at most one
\* record, leaves role_id unset and leaves the roles table empty.
C9_AppendOnly ==
    [][/\ users \subseteq users'
       /\ Cardinality(users' \ users) <= 1
       /\ \A u \in users' : u.role_id = None
       /\ roles' = roles
       /\ roles = {}]_vars

C9_Witness ==
    /\ Cardinality(users) = 2
    /\ \E r \in Requests : reqs[r].status = 500

(* ---- C10 ---- *)
SessionNameRegistered(sess) ==
    "name" \in DOMAIN sess => Records(sess["name"]) # {}

\* C10: a name held in a session, in the cookie or in a request's working
\* copy, has a committed users record; a request whose commit failed has not
\* written its session and its response leaves the cookie alone.
C10_SessionNameHasRecord ==
    /\ [](/\ \A s \in Sessions : SessionNameRegistered(cookie[s])
          /\ \A r \in Requests : SessionNameRegistered(reqs[r].sess)
          /\ \A r \in Requests :
                (reqs[r].pc = "error" \/ reqs[r].status = 500) => ~reqs[r].modified)
    /\ [][\A r \in Requests : (Steps(r) /\ reqs[r].pc \in {"commit", "error"}
                               /\ reqs'[r].pc \in {"error", "done"}) =>
             (cookie' = cookie /\ reqs'[r].sess = reqs[r].sess)]_vars

C10_Witness ==
    \E r \in Requests :
        /\ reqs[r].status = 500
        /\ "name" \in DOMAIN cookie[reqs[r].sid]
        /\ cookie[reqs[r].sid]["name"] # reqs[r].name

====
